---- MODULE Spec2Model ----
(***************************************************************************)
(* Remote commit metadata fetchers of the blog viewer:                     *)
(*   - fetchFileCommitsViaGraphQL (batched GraphQL path)                   *)
(*   - batchGetFileCommits and getFileCommits (REST path)                  *)
(* The Chinese display strings of the source are written here in English   *)
(* (the module is ASCII only); each definition names the string it stands  *)
(* for.                                                                    *)
(***************************************************************************)
EXTENDS FiniteSets, Integers, Sequences, TLC

(***************************************************************************)
(* Bounds of the model.                                                    *)
(***************************************************************************)
\* longest filePaths list given to fetchFileCommitsViaGraphQL
MaxLen == 3
\* largest batchSize given to fetchFileCommitsViaGraphQL
MaxBatchSize == 3
\* iterations of the batch loop that the model follows when batchSize is 0
\* (Math.ceil(n / 0) is Infinity: the loop has no bound of its own)
MaxSpin == 2
\* longest paths list given to batchGetFileCommits
MaxPaths == 2
\* last page of a path that the hosting API answers; a request for a later
\* page stays without response
MaxPage == 2
MaxAlias == 11
MaxText == 4
MaxSwitches == 3
MaxLoads == 3

(***************************************************************************)
(* Values.                                                                 *)
(***************************************************************************)
\* JavaScript null / undefined
Null == [type |-> "null"]

\* a JavaScript string where null may stand as well
Str(text) == [type |-> "string", text |-> text]

\* the file paths a caller may ask for
Paths == {"a.md", "docs/b.md", "c d.md"}

\* the batchSize arguments: an integer, also 0 and a negative one
BatchSizes == (-1) .. MaxBatchSize

\* the message of the error octokit.graphql throws, longer than the 30
\* characters the catch block keeps (a message is a sequence of characters)
LongMessage == [i \in 1 .. 32 |-> IF i = 32 THEN "!" ELSE "x"]
ErrorMessages == {LongMessage}

\* A text (a message, a display string) is a sequence of pieces; the empty
\* string is the empty sequence.

\* the latest commit the server holds for a path, with every field present
FullCommit(path) ==
    [author |-> [name |-> "alice"],
     committedDate |-> "2024-01-02T03:04:05Z",
     message |-> <<"update ", path>>,
     oid |-> <<"oid", path>>]

\* a commit without author and with an empty message
BareCommit(path) ==
    [author |-> Null,
     committedDate |-> "2024-05-06T07:08:09Z",
     message |-> << >>,
     oid |-> <<"oid", path>>]

\* what object(expression: "branch:path") can evaluate to for one path:
\* null (no object), a blob without history, a blob with a latest commit
FileDatas(path) ==
    { Null,
      [id |-> <<"blob", path>>, latestCommit |-> [nodes |-> <<>>]],
      [id |-> <<"blob", path>>, latestCommit |-> [nodes |-> <<FullCommit(path)>>]],
      [id |-> <<"blob", path>>, latestCommit |-> [nodes |-> <<BareCommit(path)>>]] }

(***************************************************************************)
(* State.                                                                  *)
(***************************************************************************)
VARIABLES
    \* fetchFileCommitsViaGraphQL
    filePaths,      \* argument: the list of paths
    batchSize,      \* argument: paths per batch
    serverData,     \* the hosting API: what object(...) evaluates to for
                    \* each path asked for
    batch,          \* loop variable of the batch loop
    commitMap,      \* the map under construction (path -> CommitInfo)
    gqlPc,          \* "loop" (at the loop test), "await" (suspended at
                    \* octokit.graphql), "done" (returned)
    inflight,       \* aggregate queries sent and not yet settled
    issued,         \* history: currentBatchPaths of every query sent
    thrown,         \* history: the batches whose network call threw, with
                    \* the message of the error
    gqlPromise,     \* the promise of the async function
    \* batchGetFileCommits
    paths,          \* argument: the list of paths
    perPage,        \* argument: the page size asked for
    tasks,          \* per position of paths: the async callback of paths.map
                    \* (its page, allCommits, hasMore and where it stands)
    requests,       \* history, per position: the requests sent, in order
    received,       \* history, per position: the responses got, in order
    settledOrder,   \* history: the positions in the order their callbacks
                    \* settled
    restPromise,    \* the promise batchGetFileCommits returns
    \* getFileCommits
    getPath,        \* argument: the path
    getPc,          \* "idle", "await" (suspended at fetch), "done"
    getRequest,     \* the request sent
    getPromise,     \* the promise getFileCommits returns
    \* escapeHtml
    markdown,       \* argument: the text to escape
    escaped,        \* the call: not made, made, or returned with its value
    \* switchToList, switchToShow, switchToEdit
    containers,     \* dom.containers: the classList of list, show and edit
    editTitle,      \* dom.editTitle.value
    editTags,       \* dom.editTags.value
    editContent,    \* dom.editContent.value
    editStatus,     \* dom.editStatus: textContent and className
    editFetches,    \* the fetches of switchToEdit that have not settled
    switches,       \* history: the switch functions called, in order
    \* loadBlogContent
    showLoading,    \* dom.showLoading.style.display
    showContent,    \* dom.showContent: style.display and innerHTML
    showError,      \* dom.showError: style.display and textContent
    showTitle,      \* dom.showTitle.textContent
    showTags,       \* dom.showTags: its child elements
    loadFetches,    \* the fetches of loadBlogContent that have not settled
    loads,          \* history: the calls, each with the path of its post
                    \* and the calls whose fetch was pending when it was made
    settledLoads    \* history: the calls in the order their fetches settled

gqlVars == <<filePaths, batchSize, serverData, batch, commitMap, gqlPc,
             inflight, issued, thrown, gqlPromise>>
restVars == <<paths, perPage, tasks, requests, received, settledOrder, restPromise>>
getVars == <<getPath, getPc, getRequest, getPromise>>
escVars == <<markdown, escaped>>
viewVars == <<containers, editTitle, editTags, editContent, editStatus,
              editFetches, switches>>
loadVars == <<showLoading, showContent, showError, showTitle, showTags,
              loadFetches, loads, settledLoads>>
pageVars == <<escVars, viewVars, loadVars>>

vars == <<gqlVars, restVars, getVars, pageVars>>

(***************************************************************************)
(* JavaScript helpers.                                                     *)
(***************************************************************************)
Min(a, b) == IF a < b THEN a ELSE b
Max(a, b) == IF a > b THEN a ELSE b

\* Array.prototype.slice(start, end) for integer arguments
Slice(arr, start, end) ==
    LET len == Len(arr)
        from == IF start < 0 THEN Max(len + start, 0) ELSE Min(start, len)
        to == IF end < 0 THEN Max(len + end, 0) ELSE Min(end, len)
    IN  SubSeq(arr, from + 1, to)

\* String.prototype.substring(0, n) on a message
Substring(msg, n) == SubSeq(msg, 1, Min(n, Len(msg)))

\* Math.ceil(totalFiles / batchSize) as JavaScript computes it: a number,
\* Infinity (n / 0 with n > 0) or NaN (0 / 0)
CeilDiv(totalFiles, size) ==
    IF size > 0 THEN [kind |-> "number", value |-> (totalFiles + size - 1) \div size]
    ELSE IF size < 0 THEN [kind |-> "number", value |-> 0 - (totalFiles \div (0 - size))]
    ELSE IF totalFiles > 0 THEN [kind |-> "Infinity"]
    ELSE [kind |-> "NaN"]

\* the JavaScript comparison  n < m  where m comes from CeilDiv
LessThan(n, m) ==
    CASE m.kind = "number" -> n < m.value
      [] m.kind = "Infinity" -> TRUE
      [] m.kind = "NaN" -> FALSE

(***************************************************************************)
(* fetchFileCommitsViaGraphQL.                                             *)
(***************************************************************************)
\* the display strings of the sentinels
QueryFailed == <<"query failed">>        \* lastModified of a failed batch
UnknownTime == <<"unknown time">>        \* lastModified without data
UnknownAuthor == "unknown author"        \* commitAuthor without data
NoFileData == <<"no file data found">>   \* commitMessage: field absent
NoHistory == <<"no commit history">>     \* commitMessage: no history entry
NoMessage == <<"no commit message">>     \* commitMessage: empty message

\* the loop test  batch < Math.ceil(totalFiles / batchSize)
LoopTest == LessThan(batch, CeilDiv(Len(filePaths), batchSize))

\* startIndex, endIndex and currentBatchPaths of batch b
\* (variant: positions counted from 1, the first path of a batch is lost)
startIndexFromOne(b) == b * batchSize + 1
startIndex(b) == b * batchSize
endIndex(b) == Min((b + 1) * batchSize, Len(filePaths))
currentBatchPaths(b) == Slice(filePaths, startIndex(b), endIndex(b))

\* `${n}` of a number that is not negative: its decimal digits
RECURSIVE NumberToString(_)
NumberToString(n) ==
    LET digit == <<"0", "1", "2", "3", "4", "5", "6", "7", "8", "9">>
    IN  IF n < 10 THEN <<digit[n + 1]>>
        ELSE NumberToString(n \div 10) \o <<digit[(n % 10) + 1]>>

\* (variant: the alias is `file_${batch}`, without the position)
fieldNameOfBatch(b, index) == <<"f", "i", "l", "e", "_">> \o NumberToString(b)

\* the alias `file_${batch}_${index}` of position index in batch b, as the
\* query is built
fieldName(b, index) ==
    <<"f", "i", "l", "e", "_">> \o NumberToString(b) \o <<"_">>
        \o NumberToString(index)

\* the alias `file_${batch}_${index}` as the forEach callback builds it again
\* to read the result of position index
readFieldName(b, index) ==
    <<"f", "i", "l", "e", "_">> \o NumberToString(b) \o <<"_">>
        \o NumberToString(index)

\* the aliased selections of the aggregate query of batch b, in order
fileQueries(b) ==
    LET batchPaths == currentBatchPaths(b)
    IN  [i \in 1 .. Len(batchPaths) |->
            [fieldName |-> fieldName(b, i - 1), path |-> batchPaths[i]]]

\* the hosting API answering an aggregate query: data.repository holds,
\* under every alias of the query, what the aliased expression evaluates to
Execute(query) ==
    LET aliases == {query[i].fieldName : i \in DOMAIN query}
        pathOf(a) == (CHOOSE i \in DOMAIN query : query[i].fieldName = a)
    IN  [repository |->
            [a \in aliases |-> serverData[query[pathOf(a)].path]]]

\* data.repository?.[fieldName]
FieldOf(data, name) ==
    IF name \in DOMAIN data.repository THEN data.repository[name] ELSE Null

\* date.toLocaleString('zh-CN', {...}) of new Date(committedDate)
toLocaleString(committedDate) == <<"zh-CN long date, hour and minute of ", committedDate>>

\* the CommitInfo the forEach callback stores for one path
CommitInfoOf(fileData) ==
    IF fileData = Null
    THEN [lastModified |-> UnknownTime, commitAuthor |-> UnknownAuthor,
          commitMessage |-> NoFileData]
    ELSE IF fileData.latestCommit = Null \/ Len(fileData.latestCommit.nodes) = 0
    THEN [lastModified |-> UnknownTime, commitAuthor |-> UnknownAuthor,
          commitMessage |-> NoHistory]
    ELSE LET commit == fileData.latestCommit.nodes[1]
         IN  [lastModified |-> toLocaleString(commit.committedDate),
              commitAuthor |-> IF commit.author = Null \/ commit.author.name = ""
                               THEN UnknownAuthor ELSE commit.author.name,
              commitMessage |-> IF commit.message = << >> THEN NoMessage
                                ELSE commit.message,
              commitId |-> commit.oid]

\* the CommitInfo the catch block stores for every path of a failed batch
FailedInfo(message) ==
    [lastModified |-> QueryFailed, commitAuthor |-> UnknownAuthor,
     commitMessage |-> <<"API error: ">> \o Substring(message, 30) \o <<"...">>]

\* commitMap[path] = info
Put(map, path, info) ==
    [p \in DOMAIN map \cup {path} |-> IF p = path THEN info ELSE map[p]]

\* (variant: the callback chain ends at the first path without data, the
\* paths after it in the batch are not stored)
RECURSIVE ResolveBatchUntilMissing(_, _, _, _, _)
ResolveBatchUntilMissing(map, batchPaths, b, data, index) ==
    IF index >= Len(batchPaths) THEN map
    ELSE LET info == CommitInfoOf(FieldOf(data, readFieldName(b, index)))
         IN  IF info.lastModified = UnknownTime
             THEN Put(map, batchPaths[index + 1], info)
             ELSE ResolveBatchUntilMissing(
                     Put(map, batchPaths[index + 1], info),
                     batchPaths, b, data, index + 1)

\* currentBatchPaths.forEach of the try block, from position index on
RECURSIVE ResolveBatch(_, _, _, _, _)
ResolveBatch(map, batchPaths, b, data, index) ==
    IF index >= Len(batchPaths) THEN map
    ELSE ResolveBatch(
            Put(map, batchPaths[index + 1],
                CommitInfoOf(FieldOf(data, readFieldName(b, index)))),
            batchPaths, b, data, index + 1)

\* (variant: a catch block that only logs the error)
FailBatchLogOnly(map, batchPaths, message, index) == map

\* currentBatchPaths.forEach of the catch block, from position index on
RECURSIVE FailBatch(_, _, _, _)
FailBatch(map, batchPaths, message, index) ==
    IF index >= Len(batchPaths) THEN map
    ELSE FailBatch(Put(map, batchPaths[index + 1], FailedInfo(message)),
                   batchPaths, message, index + 1)

\* the state after construction: the call has been made, nothing has run
GqlInit ==
    /\ filePaths \in UNION {[1 .. n -> Paths] : n \in 0 .. MaxLen}
    /\ batchSize \in BatchSizes
    /\ serverData \in
          LET asked == {filePaths[i] : i \in DOMAIN filePaths}
          IN  {f \in [asked -> UNION {FileDatas(p) : p \in asked}] :
                  \A p \in asked : f[p] \in FileDatas(p)}
    /\ batch = 0
    /\ commitMap = << >>
    /\ gqlPc = "loop"
    /\ inflight = {}
    /\ issued = << >>
    /\ thrown = {}
    /\ gqlPromise = "pending"

\* (variant: the call is not awaited, the loop goes on to the next batch)
GqlIssueNoAwait ==
    /\ gqlPc = "loop"
    /\ LoopTest
    /\ batchSize = 0 => batch < MaxSpin
    /\ inflight' = inflight \cup {[batch |-> batch, query |-> fileQueries(batch)]}
    /\ issued' = Append(issued, currentBatchPaths(batch))
    /\ batch' = batch + 1
    /\ UNCHANGED <<filePaths, batchSize, serverData, commitMap, gqlPc,
                   thrown, gqlPromise>>
    /\ UNCHANGED <<restVars, getVars, pageVars>>

\* the loop test holds: build the query of the batch and send it, then
\* suspend at  await octokit.graphql(query)
GqlIssue ==
    /\ gqlPc = "loop"
    /\ LoopTest
    /\ batchSize = 0 => batch < MaxSpin
    /\ inflight' = inflight \cup {[batch |-> batch, query |-> fileQueries(batch)]}
    /\ issued' = Append(issued, currentBatchPaths(batch))
    /\ gqlPc' = "await"
    /\ UNCHANGED <<filePaths, batchSize, serverData, batch, commitMap,
                   thrown, gqlPromise>>
    /\ UNCHANGED <<restVars, getVars, pageVars>>

\* the awaited call resolves: the try block stores every path of the batch
GqlResolve ==
    /\ gqlPc = "await"
    /\ \E request \in inflight :
          /\ request.batch = batch
          /\ inflight' = inflight \ {request}
          /\ commitMap' = ResolveBatch(commitMap, currentBatchPaths(batch),
                                       batch, Execute(request.query), 0)
    /\ batch' = batch + 1
    /\ gqlPc' = "loop"
    /\ UNCHANGED <<filePaths, batchSize, serverData, issued, thrown, gqlPromise>>
    /\ UNCHANGED <<restVars, getVars, pageVars>>

\* (variant: the catch block stores the sentinels and leaves the loop)
GqlFailAbort ==
    /\ gqlPc = "await"
    /\ \E request \in inflight, message \in ErrorMessages :
          /\ request.batch = batch
          /\ inflight' = inflight \ {request}
          /\ commitMap' = FailBatch(commitMap, currentBatchPaths(batch),
                                    message, 0)
          /\ thrown' = thrown \cup {[batch |-> batch, message |-> message]}
    /\ gqlPc' = "done"
    /\ gqlPromise' = "fulfilled"
    /\ UNCHANGED <<filePaths, batchSize, serverData, batch, issued>>
    /\ UNCHANGED <<restVars, getVars, pageVars>>

\* (variant: the catch block stores the sentinels and the loop sends the
\* query of the same batch again)
GqlFailRetry ==
    /\ gqlPc = "await"
    /\ \E request \in inflight, message \in ErrorMessages :
          /\ request.batch = batch
          /\ inflight' = inflight \ {request}
          /\ commitMap' = FailBatch(commitMap, currentBatchPaths(batch),
                                    message, 0)
          /\ thrown' = thrown \cup {[batch |-> batch, message |-> message]}
    /\ gqlPc' = "loop"
    /\ UNCHANGED <<filePaths, batchSize, serverData, batch, issued, gqlPromise>>
    /\ UNCHANGED <<restVars, getVars, pageVars>>

\* the awaited call throws: the catch block stores the sentinel for every
\* path of the batch, and the loop goes on
GqlFail ==
    /\ gqlPc = "await"
    /\ \E request \in inflight, message \in ErrorMessages :
          /\ request.batch = batch
          /\ inflight' = inflight \ {request}
          /\ commitMap' = FailBatch(commitMap, currentBatchPaths(batch),
                                    message, 0)
          /\ thrown' = thrown \cup {[batch |-> batch, message |-> message]}
    /\ batch' = batch + 1
    /\ gqlPc' = "loop"
    /\ UNCHANGED <<filePaths, batchSize, serverData, issued, gqlPromise>>
    /\ UNCHANGED <<restVars, getVars, pageVars>>

\* the loop test fails: return commitMap
GqlReturn ==
    /\ gqlPc = "loop"
    /\ ~LoopTest
    /\ gqlPc' = "done"
    /\ gqlPromise' = "fulfilled"
    /\ UNCHANGED <<filePaths, batchSize, serverData, batch, commitMap,
                   inflight, issued, thrown>>
    /\ UNCHANGED <<restVars, getVars, pageVars>>

GqlNext == GqlIssue \/ GqlResolve \/ GqlFail \/ GqlReturn

\* fetchFileCommitsViaGraphQL is not the function called
GqlIdle ==
    /\ filePaths = << >>
    /\ batchSize = 1
    /\ serverData = << >>
    /\ batch = 0
    /\ commitMap = << >>
    /\ gqlPc = "idle"
    /\ inflight = {}
    /\ issued = << >>
    /\ thrown = {}
    /\ gqlPromise = "idle"

(***************************************************************************)
(* The REST endpoint.                                                      *)
(***************************************************************************)
\* the paths a caller may ask the REST functions for
RestPaths == {"a.md", "c d.md"}

\* perPage = 100, the default of the parameter
DefaultPerPage == 100

\* the integers a caller may pass as perPage: below, at and above both limits
PerPages == {-5, -1, 0, 1, 2, 100, 499, 500, 501, 1000}

\* path.split('/').map(encodeURIComponent).join('/')
encodedPath(path) ==
    CASE path = "a.md" -> "a.md"
      [] path = "docs/b.md" -> "docs/b.md"
      [] path = "c d.md" -> "c%20d.md"

\* (variant: only the lower limit is applied)
safePerPageAtLeastOne == Max(1, perPage)

\* Math.max(1, Math.min(perPage, 500))
safePerPage == Max(1, Min(perPage, 500))

\* the request URL, by the parts that vary
Url(path, page) ==
    [path |-> encodedPath(path), per_page |-> safePerPage, page |-> page]

\* the commit records of one page
Records(path, page, n) == [k \in 1 .. n |-> [sha |-> <<path, page, k>>]]

statusText(status) ==
    CASE status = 200 -> <<"OK">>
      [] status = 403 -> <<"Forbidden">>
      [] status = 404 -> <<"Not Found">>
      [] status = 500 -> <<"Internal Server Error">>

HttpResponse(status, body, link) ==
    [kind |-> "response", status |-> status, statusText |-> statusText(status),
     body |-> body, link |-> link]

\* fetch rejects (no connection)
NetworkError == [kind |-> "error", message |-> <<"Failed to fetch">>]

\* how the request for a page of a path can end: a 2xx response with no
\* record or with some, with or without a next page announced; a 404, a
\* 403 or a 500 response; a network error
Outcomes(path, page) ==
    LET none == Null
        prev == Str(<<"<first>; ", "rel=\"first\"", ", <prev>; ", "rel=\"prev\"">>)
        next == Str(<<"<next>; ", "rel=\"next\"", ", <last>; ", "rel=\"last\"">>)
    IN  { HttpResponse(200, Records(path, page, 0), none),
          HttpResponse(200, Records(path, page, 0), next),
          HttpResponse(200, Records(path, page, 1), prev),
          HttpResponse(200, Records(path, page, 2), next),
          HttpResponse(403, << >>, none),
          HttpResponse(404, << >>, none),
          HttpResponse(500, << >>, none),
          NetworkError }

\* response.ok
ok(response) == response.status >= 200 /\ response.status <= 299

\* linkHeader?.includes(piece) || false
includes(linkHeader, piece) ==
    IF linkHeader = Null THEN FALSE
    ELSE \E k \in DOMAIN linkHeader.text : linkHeader.text[k] = piece

\* the messages of the errors thrown for a response that is not ok
FileNotFound(path) == <<"file not found: ", path>>
Forbidden == <<"no permission, login may be needed or the token lacks rights">>
FetchFailed(text) == <<"failed to fetch commits: ">> \o text

(***************************************************************************)
(* batchGetFileCommits.                                                    *)
(***************************************************************************)
\* (variant: the 404 message names the encoded path)
batchErrorEncoded(response, path) ==
    IF response.status = 404 THEN FileNotFound(encodedPath(path))
    ELSE IF response.status = 403 THEN Forbidden
    ELSE FetchFailed(response.statusText)

\* the message of the error thrown at  if (!response.ok)  in the loop
batchError(response, path) ==
    IF response.status = 404 THEN FileNotFound(path)
    ELSE IF response.status = 403 THEN Forbidden
    ELSE FetchFailed(response.statusText)

\* the entry the callback returns at the end of its try block
Returned(path, allCommits) ==
    [state |-> "fulfilled",
     value |-> [path |-> path, commits |-> allCommits,
                total |-> Len(allCommits), error |-> Null]]

\* (variant: no try/catch in the callback, the error leaves it)
Uncaught(path, allCommits, message) ==
    [state |-> "rejected", reason |-> Str(message)]

\* (variant: the catch block keeps the commits fetched so far)
CaughtKeeping(path, allCommits, message) ==
    [state |-> "fulfilled",
     value |-> [path |-> path, commits |-> allCommits,
                total |-> Len(allCommits), error |-> Str(message)]]

\* the entry the callback returns from its catch block
Caught(path, allCommits, message) ==
    [state |-> "fulfilled",
     value |-> [path |-> path, commits |-> << >>, total |-> 0,
                error |-> Str(message)]]

\* a callback suspended at  await fetch(url)  for a page
Awaiting(page, allCommits) ==
    [pc |-> "await", page |-> page, allCommits |-> allCommits,
     hasMore |-> TRUE, promise |-> [state |-> "pending"]]

\* a callback that has returned or thrown
Settled(task, allCommits, hasMore, promise) ==
    [pc |-> "settled", page |-> task.page, allCommits |-> allCommits,
     hasMore |-> hasMore, promise |-> promise]

\* (variant: the loop goes on whatever the Link header says)
hasNextAlways(response) == TRUE

\* hasMore = linkHeader?.includes('rel="next"') || false
hasNext(response) == includes(response.link, "rel=\"next\"")

\* (variant: the records of a page are put in front of the earlier ones)
pushFront(allCommits, commits) == commits \o allCommits

\* (variant: one allCommits array, declared outside the callback, is shared
\* by the callbacks of all the paths; it is the longest one any of them holds)
pushShared(allCommits, commits) ==
    LET holder == CHOOSE i \in DOMAIN tasks :
                      \A j \in DOMAIN tasks :
                          Len(tasks[j].allCommits) <= Len(tasks[i].allCommits)
    IN  tasks[holder].allCommits \o commits

\* allCommits.push(...commits)
push(allCommits, commits) == allCommits \o commits

\* the callback of position i resumed with the outcome of its request: the
\* rest of the loop body, up to the next  await fetch  or to its return
Resume(task, path, outcome) ==
    IF outcome.kind = "error"
    THEN Settled(task, task.allCommits, task.hasMore,
                 Caught(path, task.allCommits, outcome.message))
    ELSE IF ~ok(outcome)
    THEN Settled(task, task.allCommits, task.hasMore,
                 Caught(path, task.allCommits, batchError(outcome, path)))
    ELSE IF Len(outcome.body) = 0
    THEN Settled(task, task.allCommits, FALSE,
                 Returned(path, task.allCommits))
    ELSE LET allCommits == push(task.allCommits, outcome.body)
         IN  IF hasNext(outcome)
             THEN Awaiting(task.page + 1, allCommits)
             ELSE Settled([task EXCEPT !.page = task.page + 1], allCommits,
                          FALSE, Returned(path, allCommits))

\* (variant: the values are collected in the order the callbacks settle)
PromiseAllBySettling(ts, order) ==
    IF \E i \in DOMAIN ts : ts[i].promise.state = "rejected"
    THEN LET first == CHOOSE k \in DOMAIN order :
                        /\ ts[order[k]].promise.state = "rejected"
                        /\ \A j \in 1 .. k - 1 :
                              ts[order[j]].promise.state # "rejected"
         IN  ts[order[first]].promise
    ELSE IF \A i \in DOMAIN ts : ts[i].promise.state = "fulfilled"
    THEN [state |-> "fulfilled",
          value |-> [k \in DOMAIN ts |-> ts[order[k]].promise.value]]
    ELSE [state |-> "pending"]

\* Promise.all over the callbacks' promises: rejected with the first
\* rejection, fulfilled with the values in the order of paths once every
\* callback has returned
PromiseAll(ts, order) ==
    IF \E i \in DOMAIN ts : ts[i].promise.state = "rejected"
    THEN LET first == CHOOSE k \in DOMAIN order :
                        /\ ts[order[k]].promise.state = "rejected"
                        /\ \A j \in 1 .. k - 1 :
                              ts[order[j]].promise.state # "rejected"
         IN  ts[order[first]].promise
    ELSE IF \A i \in DOMAIN ts : ts[i].promise.state = "fulfilled"
    THEN [state |-> "fulfilled",
          value |-> [i \in DOMAIN ts |-> ts[i].promise.value]]
    ELSE [state |-> "pending"]

\* batchGetFileCommits has been called and has not run yet
RestInit ==
    /\ paths \in UNION {[1 .. n -> RestPaths] : n \in 0 .. MaxPaths}
    /\ perPage = DefaultPerPage
    /\ tasks = << >>
    /\ requests = << >>
    /\ received = << >>
    /\ settledOrder = << >>
    /\ restPromise = [state |-> "called"]

\* batchGetFileCommits is called for at most one path with any page size
RestInitPerPage ==
    /\ paths \in UNION {[1 .. n -> RestPaths] : n \in 0 .. 1}
    /\ perPage \in PerPages
    /\ tasks = << >>
    /\ requests = << >>
    /\ received = << >>
    /\ settledOrder = << >>
    /\ restPromise = [state |-> "called"]

\* batchGetFileCommits is not the function called
RestIdle ==
    /\ paths = << >>
    /\ perPage = DefaultPerPage
    /\ tasks = << >>
    /\ requests = << >>
    /\ received = << >>
    /\ settledOrder = << >>
    /\ restPromise = [state |-> "idle"]

\* the body of batchGetFileCommits: paths.map starts every callback, each
\* runs to its first  await fetch  (page 1), and Promise.all is returned
RestCall ==
    /\ restPromise.state = "called"
    /\ tasks' = [i \in DOMAIN paths |-> Awaiting(1, << >>)]
    /\ requests' = [i \in DOMAIN paths |-> <<Url(paths[i], 1)>>]
    /\ received' = [i \in DOMAIN paths |-> << >>]
    /\ restPromise' = PromiseAll(tasks', settledOrder)
    /\ UNCHANGED <<paths, perPage, settledOrder>>
    /\ UNCHANGED <<gqlVars, getVars, pageVars>>

\* the request of the callback of position i ends, and the callback runs on
\* to its next request or to its return; Promise.all follows
RestRespond(i) ==
    /\ restPromise.state = "pending"
    /\ tasks[i].pc = "await"
    /\ tasks[i].page <= MaxPage
    /\ \E outcome \in Outcomes(paths[i], tasks[i].page) :
          LET task == Resume(tasks[i], paths[i], outcome)
          IN  /\ tasks' = [tasks EXCEPT ![i] = task]
              /\ received' = [received EXCEPT ![i] = Append(@, outcome)]
              /\ requests' = IF task.pc = "await"
                             THEN [requests EXCEPT
                                      ![i] = Append(@, Url(paths[i], task.page))]
                             ELSE requests
              /\ settledOrder' = IF task.pc = "settled"
                                 THEN Append(settledOrder, i)
                                 ELSE settledOrder
    /\ restPromise' = PromiseAll(tasks', settledOrder')
    /\ UNCHANGED <<paths, perPage>>
    /\ UNCHANGED <<gqlVars, getVars, pageVars>>

RestNext == RestCall \/ \E i \in DOMAIN tasks : RestRespond(i)

(***************************************************************************)
(* getFileCommits.                                                         *)
(***************************************************************************)
\* how the request of getFileCommits (per_page=1) can end
GetOutcomes(path) ==
    { HttpResponse(200, Records(path, 1, 0), Null),
      HttpResponse(200, Records(path, 1, 1), Null),
      HttpResponse(403, << >>, Null),
      HttpResponse(404, << >>, Null),
      HttpResponse(500, << >>, Null),
      NetworkError }

\* the message of the error thrown at  if (!response.ok)
getError(response, path) ==
    IF response.status = 404 THEN FileNotFound(path)
    ELSE IF response.status = 403 THEN Forbidden
    ELSE FetchFailed(response.statusText)

\* getFileCommits has been called and has not run yet
GetInit ==
    /\ getPath \in RestPaths
    /\ getPc = "called"
    /\ getRequest = Null
    /\ getPromise = [state |-> "pending"]

\* getFileCommits is not the function called
GetIdle ==
    /\ getPath = ""
    /\ getPc = "idle"
    /\ getRequest = Null
    /\ getPromise = [state |-> "idle"]

\* build the URL and suspend at  await fetch(url, { headers })
GetFetch ==
    /\ getPc = "called"
    /\ getRequest' = [path |-> encodedPath(getPath), per_page |-> 1]
    /\ getPc' = "await"
    /\ UNCHANGED <<getPath, getPromise>>
    /\ UNCHANGED <<gqlVars, restVars, pageVars>>

\* the request ends: throw to the caller, or return the records
GetRespond ==
    /\ getPc = "await"
    /\ \E outcome \in GetOutcomes(getPath) :
          getPromise' =
              IF outcome.kind = "error"
              THEN [state |-> "rejected", reason |-> Str(outcome.message),
                    outcome |-> outcome]
              ELSE IF ~ok(outcome)
              THEN [state |-> "rejected",
                    reason |-> Str(getError(outcome, getPath)),
                    outcome |-> outcome]
              ELSE [state |-> "fulfilled", value |-> outcome.body,
                    outcome |-> outcome]
    /\ getPc' = "done"
    /\ UNCHANGED <<getPath, getRequest>>
    /\ UNCHANGED <<gqlVars, restVars, pageVars>>

GetNext == GetFetch \/ GetRespond

(***************************************************************************)
(* The program: one of the three functions is called.                      *)
(***************************************************************************)
(***************************************************************************)
(* escapeHtml (part_000).  A text is the sequence of its characters.       *)
(***************************************************************************)
\* the characters of the texts escaped: the five that are replaced, and
\* those that together with & spell the entity "&lt;"
EscapeChars == {"&", "<", ">", "\"", "'", "l", "t", ";"}

\* texts that hold an entity already
EntityTexts ==
    { <<"&", "a", "m", "p", ";">>,
      <<"&", "a", "m", "p", ";", "l", "t", ";">>,
      <<"&", "l", "t", ";", "<">>,
      <<"&", "#", "0", "3", "9", ";">>,
      <<"&", "q", "u", "o", "t", ";", "\"">>,
      <<"'", "&", "g", "t", ";", ">">> }

Texts == UNION {[1 .. n -> EscapeChars] : n \in 0 .. MaxText} \cup EntityTexts

\* text.replace(/c/g, replacement) for a single character c
RECURSIVE replace(_, _, _)
replace(text, c, replacement) ==
    IF text = << >> THEN << >>
    ELSE (IF Head(text) = c THEN replacement ELSE <<Head(text)>>)
             \o replace(Tail(text), c, replacement)

\* (variant: the ampersand is replaced after the other four characters)
escapeHtmlAmpersandLast(text) ==
    replace(
        replace(
            replace(
                replace(
                    replace(text, "<", <<"&", "l", "t", ";">>),
                    ">", <<"&", "g", "t", ";">>),
                "\"", <<"&", "q", "u", "o", "t", ";">>),
            "'", <<"&", "#", "0", "3", "9", ";">>),
        "&", <<"&", "a", "m", "p", ";">>)

\* the five replacements of escapeHtml, the ampersand first
escapeHtml(text) ==
    replace(
        replace(
            replace(
                replace(
                    replace(text, "&", <<"&", "a", "m", "p", ";">>),
                    "<", <<"&", "l", "t", ";">>),
                ">", <<"&", "g", "t", ";">>),
            "\"", <<"&", "q", "u", "o", "t", ";">>),
        "'", <<"&", "#", "0", "3", "9", ";">>)

\* escapeHtml is called with a text
EscInit ==
    /\ markdown \in Texts
    /\ escaped = [state |-> "called"]

\* escapeHtml is not the function called
EscIdle ==
    /\ markdown = << >>
    /\ escaped = [state |-> "idle"]

\* the body of escapeHtml
EscReturn ==
    /\ escaped.state = "called"
    /\ escaped' = [state |-> "returned", value |-> escapeHtml(markdown)]
    /\ UNCHANGED markdown
    /\ UNCHANGED <<gqlVars, restVars, getVars, viewVars, loadVars>>

EscNext == EscReturn

(***************************************************************************)
(* switchToList, switchToShow, switchToEdit (part_000).                    *)
(***************************************************************************)
\* the posts of the blog: title, tags and the path of the Markdown file
Blogs ==
    { [title |-> "First post", tags |-> <<"js", "css">>, path |-> "posts/a.md"],
      [title |-> "Second post", tags |-> << >>, path |-> "posts/b.md"] }

\* the Markdown text served at a path
FileText(path) == <<"markdown of ", path>>

\* how fetch(blog.path) can end: a response that is ok with the text, a
\* response that is not ok with the text of an error page, a network error
FileOutcomes(path) ==
    { [kind |-> "response", ok |-> TRUE, statusText |-> <<"OK">>,
       text |-> FileText(path)],
      [kind |-> "response", ok |-> FALSE, statusText |-> <<"Not Found">>,
       text |-> <<"404 page">>],
      [kind |-> "error", message |-> <<"Failed to fetch">>] }

\* Array.prototype.join(separator)
RECURSIVE join(_, _)
join(array, separator) ==
    IF array = << >> THEN << >>
    ELSE IF Len(array) = 1 THEN <<array[1]>>
    ELSE <<array[1], separator>> \o join(Tail(array), separator)

\* classList.add(name) then classList.remove(other)
addRemove(classList, name, other) == (classList \cup {name}) \ {other}

ContainerNames == {"list", "show", "edit"}

\* the page before a call: one container is active, the other two hidden
ViewInit ==
    /\ \E active \in ContainerNames :
          containers = [c \in ContainerNames |->
                           IF c = active THEN {"container-active"}
                           ELSE {"container-hidden"}]
    /\ editTitle = << >>
    /\ editTags = << >>
    /\ editContent = << >>
    /\ editStatus = [textContent |-> << >>, className |-> "status"]
    /\ editFetches = {}
    /\ switches = << >>

\* none of the switch functions is called
ViewIdle ==
    /\ containers = [c \in ContainerNames |-> {}]
    /\ editTitle = << >>
    /\ editTags = << >>
    /\ editContent = << >>
    /\ editStatus = [textContent |-> << >>, className |-> "status"]
    /\ editFetches = {}
    /\ switches = << >>

switchToList ==
    /\ Len(switches) < MaxSwitches
    /\ containers' =
          [list |-> addRemove(containers.list, "container-active", "container-hidden"),
           show |-> addRemove(containers.show, "container-hidden", "container-active"),
           edit |-> addRemove(containers.edit, "container-hidden", "container-active")]
    /\ switches' = Append(switches, "list")
    /\ UNCHANGED <<editTitle, editTags, editContent, editStatus, editFetches>>
    /\ UNCHANGED <<gqlVars, restVars, getVars, escVars, loadVars>>

switchToShow ==
    /\ Len(switches) < MaxSwitches
    /\ containers' =
          [list |-> addRemove(containers.list, "container-hidden", "container-active"),
           show |-> addRemove(containers.show, "container-active", "container-hidden"),
           edit |-> addRemove(containers.edit, "container-hidden", "container-active")]
    /\ switches' = Append(switches, "show")
    /\ UNCHANGED <<editTitle, editTags, editContent, editStatus, editFetches>>
    /\ UNCHANGED <<gqlVars, restVars, getVars, escVars, loadVars>>

\* fills the form, starts the fetch of the Markdown text, and changes the
\* classes of the show and edit containers
switchToEdit ==
    /\ Len(switches) < MaxSwitches
    /\ \E blog \in Blogs :
          /\ editTitle' = <<blog.title>>
          /\ editTags' = join(blog.tags, ",")
          /\ editFetches' = editFetches \cup
                {[call |-> Len(switches) + 1, path |-> blog.path]}
    /\ editStatus' = [editStatus EXCEPT !.textContent = << >>]
    /\ containers' =
          [list |-> containers.list,
           show |-> addRemove(containers.show, "container-hidden", "container-active"),
           edit |-> addRemove(containers.edit, "container-active", "container-hidden")]
    /\ switches' = Append(switches, "edit")
    /\ UNCHANGED editContent
    /\ UNCHANGED <<gqlVars, restVars, getVars, escVars, loadVars>>

\* a fetch of switchToEdit got a response, ok or not: res.text() goes into
\* the editor
EditLoaded ==
    /\ \E request \in editFetches :
          \E outcome \in FileOutcomes(request.path) :
              /\ outcome.kind = "response"
              /\ editContent' = outcome.text
              /\ editFetches' = editFetches \ {request}
    /\ UNCHANGED <<containers, editTitle, editTags, editStatus, switches>>
    /\ UNCHANGED <<gqlVars, restVars, getVars, escVars, loadVars>>

\* a fetch of switchToEdit rejected: the catch callback reports it
EditFailed ==
    /\ \E request \in editFetches :
          \E outcome \in FileOutcomes(request.path) :
              /\ outcome.kind = "error"
              /\ editStatus' = [textContent |-> <<"load failed: ">> \o outcome.message,
                                className |-> "status error"]
              /\ editFetches' = editFetches \ {request}
    /\ UNCHANGED <<containers, editTitle, editTags, editContent, switches>>
    /\ UNCHANGED <<gqlVars, restVars, getVars, escVars, loadVars>>

ViewNext ==
    switchToList \/ switchToShow \/ switchToEdit \/ EditLoaded \/ EditFailed

(***************************************************************************)
(* loadBlogContent (part_000).                                             *)
(***************************************************************************)
\* the renderer passed as renderMarkdownFunc: the HTML of a Markdown text
renderMarkdownFunc(text) == <<"<p>">> \o text \o <<"</p>">>

\* the span elements made of the tags of a post
TagElements(tags) ==
    [i \in DOMAIN tags |-> [className |-> "tag", textContent |-> tags[i]]]

\* the show page before the first call
LoadInit ==
    /\ showLoading = "none"
    /\ showContent = [display |-> "none", innerHTML |-> << >>]
    /\ showError = [display |-> "none", textContent |-> << >>]
    /\ showTitle = << >>
    /\ showTags = << >>
    /\ loadFetches = {}
    /\ loads = << >>
    /\ settledLoads = << >>

\* loadBlogContent is not the function called
LoadIdle ==
    /\ showLoading = ""
    /\ showContent = [display |-> "", innerHTML |-> << >>]
    /\ showError = [display |-> "", textContent |-> << >>]
    /\ showTitle = << >>
    /\ showTags = << >>
    /\ loadFetches = {}
    /\ loads = << >>
    /\ settledLoads = << >>

\* the synchronous part: show the loading indicator, set the title and the
\* tags, start the fetch
loadBlogContent ==
    /\ Len(loads) < MaxLoads
    /\ showLoading' = "block"
    /\ showContent' = [showContent EXCEPT !.display = "none"]
    /\ showError' = [showError EXCEPT !.display = "none"]
    /\ \E blog \in Blogs :
          /\ showTitle' = <<blog.title>>
          /\ showTags' = TagElements(blog.tags)
          /\ loadFetches' = loadFetches \cup
                {[call |-> Len(loads) + 1, path |-> blog.path]}
          /\ loads' = Append(loads,
                [path |-> blog.path, title |-> blog.title,
                 pending |-> {request.call : request \in loadFetches}])
    /\ UNCHANGED settledLoads
    /\ UNCHANGED <<gqlVars, restVars, getVars, escVars, viewVars>>

\* a fetch got a response that is ok: the second then callback renders the
\* text into the content pane and shows it
LoadRendered ==
    /\ \E request \in loadFetches :
          \E outcome \in FileOutcomes(request.path) :
              /\ outcome.kind = "response"
              /\ outcome.ok
              /\ showContent' = [display |-> "block",
                                 innerHTML |-> renderMarkdownFunc(outcome.text)]
              /\ loadFetches' = loadFetches \ {request}
              /\ settledLoads' = Append(settledLoads, request.call)
    /\ showLoading' = "none"
    /\ UNCHANGED <<showError, showTitle, showTags, loads>>
    /\ UNCHANGED <<gqlVars, restVars, getVars, escVars, viewVars>>

\* a fetch rejected, or its response is not ok and the first then callback
\* throws: the catch callback shows the error pane
LoadFailed ==
    /\ \E request \in loadFetches :
          \E outcome \in FileOutcomes(request.path) :
              /\ IF outcome.kind = "error" THEN TRUE ELSE ~outcome.ok
              /\ showError' =
                    [display |-> "block",
                     textContent |->
                        <<"load failed: ">> \o
                            (IF outcome.kind = "error" THEN outcome.message
                             ELSE <<"load failed: ">> \o outcome.statusText)]
              /\ loadFetches' = loadFetches \ {request}
              /\ settledLoads' = Append(settledLoads, request.call)
    /\ showLoading' = "none"
    /\ UNCHANGED <<showContent, showTitle, showTags, loads>>
    /\ UNCHANGED <<gqlVars, restVars, getVars, escVars, viewVars>>

LoadNext == loadBlogContent \/ LoadRendered \/ LoadFailed

\* none of the functions of the page script is called
PageIdle == EscIdle /\ ViewIdle /\ LoadIdle

Init ==
    \/ GqlInit /\ RestIdle /\ GetIdle /\ PageIdle
    \/ GqlIdle /\ RestInit /\ GetIdle /\ PageIdle
    \/ GqlIdle /\ RestIdle /\ GetInit /\ PageIdle

Next == GqlNext \/ RestNext \/ GetNext

Spec == Init /\ [][Next]_vars

\* batchGetFileCommits alone, over the page sizes
InitPerPage == GqlIdle /\ RestInitPerPage /\ GetIdle /\ PageIdle
SpecPerPage == InitPerPage /\ [][RestNext]_vars

\* escapeHtml alone, over the texts
InitEscape == GqlIdle /\ RestIdle /\ GetIdle /\ EscInit /\ ViewIdle /\ LoadIdle
SpecEscape == InitEscape /\ [][EscNext]_vars

\* the switch functions alone, from a page with one container active
InitView == GqlIdle /\ RestIdle /\ GetIdle /\ EscIdle /\ ViewInit /\ LoadIdle
SpecView == InitView /\ [][ViewNext]_vars

\* loadBlogContent alone, from the show page before the first call
InitLoad == GqlIdle /\ RestIdle /\ GetIdle /\ EscIdle /\ ViewIdle /\ LoadInit
SpecLoad == InitLoad /\ [][LoadNext]_vars

(***************************************************************************)
(* Vocabulary of the properties of fetchFileCommitsViaGraphQL.             *)
(***************************************************************************)
\* the paths asked for
AskedPaths == {filePaths[i] : i \in DOMAIN filePaths}

\* the call has returned its map
GqlReturned == gqlPc = "done" /\ gqlPromise = "fulfilled"

\* the number of batches of a list of length L cut in batches of B >= 1:
\* the least n with n * B >= L
BatchCount == CHOOSE n \in 0 .. Len(filePaths) :
                 /\ n * batchSize >= Len(filePaths)
                 /\ n > 0 => (n - 1) * batchSize < Len(filePaths)

\* the batch (counted from 0) that holds position i (counted from 1)
BatchOfPosition(i) == (i - 1) \div batchSize

\* the positions of path p in the list, and the batches that contain it
PositionsOf(p) == {i \in DOMAIN filePaths : filePaths[i] = p}
BatchesOf(p) == {BatchOfPosition(i) : i \in PositionsOf(p)}
LastBatchOf(p) == CHOOSE b \in BatchesOf(p) : \A c \in BatchesOf(p) : c <= b

\* the batches whose network call threw
ThrownBatches == {t.batch : t \in thrown}
MessageOf(b) == (CHOOSE t \in thrown : t.batch = b).message

\* the concatenation of a sequence of sequences
RECURSIVE Flatten(_)
Flatten(seqs) == IF seqs = << >> THEN << >> ELSE Head(seqs) \o Flatten(Tail(seqs))

\* the length of the first k sequences together
RECURSIVE LengthBefore(_, _)
LengthBefore(seqs, k) ==
    IF k <= 1 THEN 0 ELSE LengthBefore(seqs, k - 1) + Len(seqs[k - 1])

\* the value a path has when no network call fails: what the server holds
\* for it, resolved on its own
Unfailed(p) == CommitInfoOf(serverData[p])

(***************************************************************************)
(* C1: for every list of paths and every batchSize >= 1, whichever batch   *)
(* calls fail, the returned map has a key for every input path and no      *)
(* other key, and the value of a path is the outcome computed in a batch   *)
(* that contains it (the last one): the sentinel with that batch's error   *)
(* when its call threw, the resolution of the path's own data otherwise.   *)
(***************************************************************************)
C1_MapComplete ==
    /\ DOMAIN commitMap \subseteq AskedPaths
    /\ (GqlReturned /\ batchSize >= 1) =>
          /\ DOMAIN commitMap = AskedPaths
          /\ \A p \in AskedPaths :
                commitMap[p] =
                    IF LastBatchOf(p) \in ThrownBatches
                    THEN FailedInfo(MessageOf(LastBatchOf(p)))
                    ELSE Unfailed(p)

\* a call that returned after three paths in two batches, one of them failed
C1_Witness ==
    /\ GqlReturned
    /\ batchSize = 2
    /\ Len(filePaths) = 3
    /\ Cardinality(AskedPaths) = 3
    /\ ThrownBatches = {0}

(***************************************************************************)
(* C3: for a list of length L and batchSize B > 0 the batches formed are   *)
(* consecutive slices of the list, none longer than B, none overlapping,   *)
(* in batch order a prefix of the list; when the call returns there are    *)
(* ceil(L/B) of them and their concatenation is the list.                  *)
(***************************************************************************)
C3_Partition ==
    batchSize >= 1 =>
        /\ \A k \in DOMAIN issued :
              /\ Len(issued[k]) <= batchSize
              /\ issued[k] = SubSeq(filePaths, LengthBefore(issued, k) + 1,
                                    LengthBefore(issued, k) + Len(issued[k]))
        /\ Len(Flatten(issued)) <= Len(filePaths)
        /\ GqlReturned =>
              /\ Len(issued) = BatchCount
              /\ Flatten(issued) = filePaths

\* three paths cut in a batch of two and a batch of one
C3_Witness ==
    /\ GqlReturned
    /\ batchSize = 2
    /\ Len(filePaths) = 3
    /\ Len(issued) = 2
    /\ Len(issued[1]) = 2
    /\ Len(issued[2]) = 1

(***************************************************************************)
(* C4 as stated: when the call of a batch throws, every path of that batch *)
(* and no path that belongs only to other batches ends with the "query     *)
(* failed" sentinel, the paths of batches whose call succeeded end as if   *)
(* no batch had failed, and the later batches are still executed.          *)
(***************************************************************************)
C4_AsStated ==
    (GqlReturned /\ batchSize >= 1) =>
        /\ Len(issued) = BatchCount
        /\ \A p \in AskedPaths :
              /\ (BatchesOf(p) \cap ThrownBatches # {}) =>
                    (p \in DOMAIN commitMap /\ commitMap[p].lastModified = QueryFailed)
              /\ (BatchesOf(p) \cap ThrownBatches = {}) =>
                    (p \in DOMAIN commitMap /\ commitMap[p].lastModified # QueryFailed)
              /\ (BatchesOf(p) \ ThrownBatches # {}) =>
                    (p \in DOMAIN commitMap /\ commitMap[p] = Unfailed(p))

(***************************************************************************)
(* C4 amended: when the call of a batch throws, every path of that batch   *)
(* that occurs in no later batch ends with the "query failed" sentinel,    *)
(* and no path whose last batch succeeded does; a path whose last batch    *)
(* succeeded ends as if no batch had failed; the later batches are still   *)
(* executed (every batch is).                                              *)
(***************************************************************************)
C4_BatchOutage ==
    /\ (gqlPc = "loop" /\ batchSize >= 1) => Len(issued) = batch
    /\ (GqlReturned /\ batchSize >= 1) =>
          /\ Len(issued) = BatchCount
          /\ \A p \in AskedPaths :
                /\ p \in DOMAIN commitMap
                /\ (LastBatchOf(p) \in ThrownBatches) <=>
                       (commitMap[p].lastModified = QueryFailed)
                /\ (LastBatchOf(p) \notin ThrownBatches) =>
                       (commitMap[p] = Unfailed(p))

\* the first of three batches failed, the two later ones succeeded
C4_Witness ==
    /\ GqlReturned
    /\ batchSize = 1
    /\ Len(filePaths) = 3
    /\ Cardinality(AskedPaths) = 3
    /\ ThrownBatches = {0}
    /\ commitMap[filePaths[1]].lastModified = QueryFailed
    /\ commitMap[filePaths[2]].lastModified # QueryFailed

(***************************************************************************)
(* C8: at most one aggregate query is in flight; while the query of a      *)
(* batch is in flight the function is suspended on it, every earlier batch *)
(* has been sent and settled, and the paths of every earlier batch are in  *)
(* the map.                                                                *)
(***************************************************************************)
C8_OneInFlight ==
    /\ Cardinality(inflight) <= 1
    /\ \A request \in inflight :
          /\ gqlPc = "await"
          /\ request.batch = batch
          /\ Len(issued) = request.batch + 1
          /\ batchSize >= 1 =>
                \A i \in DOMAIN filePaths :
                    BatchOfPosition(i) < request.batch =>
                        filePaths[i] \in DOMAIN commitMap

\* the query of the second batch is in flight after the first was settled
C8_Witness ==
    /\ Cardinality(inflight) = 1
    /\ batch = 1
    /\ batchSize = 1
    /\ Len(filePaths) >= 2
    /\ filePaths[1] \in DOMAIN commitMap

(***************************************************************************)
(* Vocabulary of the properties of the REST functions.                     *)
(***************************************************************************)
\* batchGetFileCommits has resolved; the array it resolved to
RestFulfilled == restPromise.state = "fulfilled"

\* the callback of position i has settled; the entry it produced
TaskSettled(i) == i \in DOMAIN tasks /\ tasks[i].pc = "settled"
EntryOf(i) == tasks[i].promise.value

\* a request ended in a failure: no response, or a response outside 2xx
IsFailure(outcome) ==
    \/ outcome.kind = "error"
    \/ outcome.status < 200
    \/ outcome.status > 299

\* a response announces a next page
AnnouncesNext(outcome) ==
    /\ outcome.link # Null
    /\ \E k \in DOMAIN outcome.link.text : outcome.link.text[k] = "rel=\"next\""

\* a page after which no page is asked for: no record, or no next page
IsLastPage(outcome) ==
    /\ ~IsFailure(outcome)
    /\ (Len(outcome.body) = 0 \/ ~AnnouncesNext(outcome))

\* the failure message by cause
MessageByCause(outcome, path) ==
    CASE outcome.kind = "error" -> outcome.message
      [] outcome.kind = "response" /\ outcome.status = 404 ->
            <<"file not found: ", path>>
      [] outcome.kind = "response" /\ outcome.status = 403 -> Forbidden
      [] OTHER -> <<"failed to fetch commits: ">> \o outcome.statusText

\* a text holds a piece
Contains(text, piece) == \E k \in DOMAIN text : text[k] = piece

\* the records of the pages of a log, in page order
RECURSIVE RecordsOf(_)
RecordsOf(log) ==
    IF log = << >> THEN << >> ELSE Head(log).body \o RecordsOf(Tail(log))

\* the entry of a path as its own responses alone determine it
EntryFromLog(path, log) ==
    IF log # << >> /\ IsFailure(log[Len(log)])
    THEN [path |-> path, commits |-> << >>, total |-> 0,
          error |-> Str(MessageByCause(log[Len(log)], path))]
    ELSE [path |-> path, commits |-> RecordsOf(log),
          total |-> Len(RecordsOf(log)), error |-> Null]

(***************************************************************************)
(* C2: the array batchGetFileCommits resolves to has one entry per input   *)
(* path, and entry i carries paths[i], whatever the order in which the     *)
(* responses arrive and whichever paths fail.                              *)
(***************************************************************************)
C2_EntryPerPath ==
    RestFulfilled =>
        /\ DOMAIN restPromise.value = DOMAIN paths
        /\ \A i \in DOMAIN paths : restPromise.value[i].path = paths[i]

\* two different paths, the second settled first, the first failed
C2_Witness ==
    /\ RestFulfilled
    /\ Len(paths) = 2
    /\ paths[1] # paths[2]
    /\ settledOrder = <<2, 1>>
    /\ restPromise.value[1].error # Null
    /\ restPromise.value[2].error = Null

(***************************************************************************)
(* C5: a failure on any page request of a path (the first page, or a later *)
(* page after earlier pages succeeded) makes the entry of that path        *)
(* commits = [], total = 0, error = the failure message; the entry of      *)
(* every path is what its own responses alone determine, so a failure      *)
(* leaves the entries of the other paths what they would be without it.    *)
(***************************************************************************)
C5_FailureIsolated ==
    /\ \A i \in DOMAIN tasks :
          TaskSettled(i) =>
              /\ tasks[i].promise.state = "fulfilled"
              /\ EntryOf(i) = EntryFromLog(paths[i], received[i])
              /\ (\E k \in DOMAIN received[i] : IsFailure(received[i][k])) =>
                    /\ EntryOf(i).commits = << >>
                    /\ EntryOf(i).total = 0
                    /\ EntryOf(i).error # Null
    /\ RestFulfilled =>
          \A i \in DOMAIN paths : restPromise.value[i] = EntryOf(i)

\* the first path failed on its second page, the second path has its records
C5_Witness ==
    /\ RestFulfilled
    /\ Len(paths) = 2
    /\ Len(received[1]) = 2
    /\ ~IsFailure(received[1][1])
    /\ IsFailure(received[1][2])
    /\ restPromise.value[1].commits = << >>
    /\ restPromise.value[1].total = 0
    /\ restPromise.value[1].error # Null
    /\ restPromise.value[2].error = Null
    /\ restPromise.value[2].total = 2

(***************************************************************************)
(* C6: batchGetFileCommits and fetchFileCommitsViaGraphQL never reject:    *)
(* whatever the outcome of each network call, no callback and neither      *)
(* promise is rejected, a function that has finished has fulfilled its     *)
(* promise, and the result carries the failure: the entry of a failed path *)
(* has an error, the paths of a failed batch (the last batch of each) have *)
(* the "query failed" sentinel.                                            *)
(***************************************************************************)
C6_NeverRejects ==
    /\ restPromise.state # "rejected"
    /\ gqlPromise # "rejected"
    /\ \A i \in DOMAIN tasks : tasks[i].promise.state # "rejected"
    /\ (restPromise.state = "pending") =>
          (\E i \in DOMAIN tasks : tasks[i].pc = "await")
    /\ RestFulfilled =>
          \A i \in DOMAIN paths :
              (received[i] # << >> /\ IsFailure(received[i][Len(received[i])]))
                  => restPromise.value[i].error # Null
    /\ gqlPc = "done" => gqlPromise = "fulfilled"
    /\ (GqlReturned /\ batchSize >= 1) =>
          \A p \in AskedPaths :
              LastBatchOf(p) \in ThrownBatches =>
                  (p \in DOMAIN commitMap /\ commitMap[p].lastModified = QueryFailed)

\* batchGetFileCommits resolved although one request got no response at
\* all and another a 500 response
C6_Witness ==
    /\ RestFulfilled
    /\ Len(paths) = 2
    /\ received[1] = <<NetworkError>>
    /\ Len(received[2]) = 1
    /\ received[2][1].kind = "response"
    /\ received[2][1].status = 500
    /\ restPromise.value[1].error # Null
    /\ restPromise.value[2].error # Null

(***************************************************************************)
(* C7: a REST response outside 2xx is classified by status: 404 gives a    *)
(* message that contains the requested path, 403 the forbidden message,    *)
(* any other status the generic message with the status text;              *)
(* getFileCommits throws this error to its caller, batchGetFileCommits     *)
(* records the same message in the entry of the path.                      *)
(***************************************************************************)
C7_StatusClassified ==
    /\ (getPc = "done" /\ getPromise.outcome.kind = "response"
            /\ IsFailure(getPromise.outcome)) =>
          /\ getPromise.state = "rejected"
          /\ getPromise.reason = Str(MessageByCause(getPromise.outcome, getPath))
          /\ getPromise.outcome.status = 404 =>
                Contains(getPromise.reason.text, getPath)
          /\ getPromise.outcome.status \notin {403, 404} =>
                \A k \in DOMAIN getPromise.outcome.statusText :
                    Contains(getPromise.reason.text, getPromise.outcome.statusText[k])
    /\ \A i \in DOMAIN tasks :
          (TaskSettled(i) /\ received[i][Len(received[i])].kind = "response"
                /\ IsFailure(received[i][Len(received[i])])) =>
              LET last == received[i][Len(received[i])]
              IN  /\ tasks[i].promise.state = "fulfilled"
                  /\ EntryOf(i).error = Str(MessageByCause(last, paths[i]))
                  /\ last.status = 404 => Contains(EntryOf(i).error.text, paths[i])
                  /\ last.status \notin {403, 404} =>
                        \A k \in DOMAIN last.statusText :
                            Contains(EntryOf(i).error.text, last.statusText[k])

\* batchGetFileCommits recorded the 404 of a path that needs encoding, the
\* 403 of another path
C7_Witness ==
    /\ RestFulfilled
    /\ paths = <<"c d.md", "a.md">>
    /\ Len(received[1]) = 1
    /\ received[1][1].kind = "response"
    /\ received[1][1].status = 404
    /\ Len(received[2]) = 1
    /\ received[2][1].kind = "response"
    /\ received[2][1].status = 403
    /\ restPromise.value[1].error = Str(<<"file not found: ", "c d.md">>)
    /\ restPromise.value[2].error = Str(Forbidden)

(***************************************************************************)
(* C9: the pages of a path are requested as 1, 2, 3, ...; page N+1 is      *)
(* requested only after the response of page N has been received; no page  *)
(* is requested after the first page that has no record or no rel="next",  *)
(* and a callback that returned without error stopped at such a page.      *)
(***************************************************************************)
C9_PagesInSequence ==
    \A i \in DOMAIN tasks :
        /\ requests[i] = [k \in 1 .. Len(requests[i]) |-> Url(paths[i], k)]
        /\ Len(requests[i]) =
              Len(received[i]) + (IF tasks[i].pc = "await" THEN 1 ELSE 0)
        /\ \A k \in DOMAIN received[i] :
              k < Len(requests[i]) =>
                  (~IsFailure(received[i][k]) /\ ~IsLastPage(received[i][k]))
        /\ TaskSettled(i) =>
              LET last == received[i][Len(received[i])]
              IN  IsFailure(last) \/ IsLastPage(last)

\* page 2 was requested after page 1 announced a next page, and was the last
C9_Witness ==
    /\ Len(paths) >= 1
    /\ TaskSettled(1)
    /\ Len(requests[1]) = 2
    /\ requests[1][2].page = 2
    /\ Len(received[1]) = 2
    /\ AnnouncesNext(received[1][1])
    /\ IsLastPage(received[1][2])
    /\ ~AnnouncesNext(received[1][2])
    /\ Len(received[1][2].body) = 1

(***************************************************************************)
(* C10: for a path all of whose page requests succeed, commits is the      *)
(* concatenation in page order of the records of every fetched page, total *)
(* is the number of those records and error is null (a full page with a    *)
(* next link followed by an empty page gives the total of the full page).  *)
(***************************************************************************)
C10_AllPagesConcatenated ==
    \A i \in DOMAIN tasks :
        (TaskSettled(i) /\ \A k \in DOMAIN received[i] : ~IsFailure(received[i][k])) =>
            /\ EntryOf(i).commits = RecordsOf(received[i])
            /\ EntryOf(i).total = Len(RecordsOf(received[i]))
            /\ EntryOf(i).error = Null
            /\ RestFulfilled => restPromise.value[i] = EntryOf(i)

\* a full page (two records) with a next link, then an empty page
C10_Witness ==
    /\ RestFulfilled
    /\ Len(paths) >= 1
    /\ Len(received[1]) = 2
    /\ Len(received[1][1].body) = 2
    /\ AnnouncesNext(received[1][1])
    /\ ~IsFailure(received[1][2])
    /\ Len(received[1][2].body) = 0
    /\ restPromise.value[1].total = 2
    /\ restPromise.value[1].commits = received[1][1].body
    /\ restPromise.value[1].error = Null

(***************************************************************************)
(* C11: in a batch whose network call succeeds each path is resolved on    *)
(* its own: right after the batch, a path whose aliased field is absent    *)
(* has the "unknown time" / "unknown author" sentinel with the "no file    *)
(* data found" message, a path whose blob has no history entry has the     *)
(* same sentinel with the "no commit history" message, and every other     *)
(* path has the date, author and message of the commit under its own       *)
(* alias (the placeholders where that commit has no author or an empty     *)
(* message), whatever the other paths of the batch got.                    *)
(***************************************************************************)
C11_ResolvedIndependently ==
    (gqlPc \in {"loop", "done"} /\ batchSize >= 1 /\ batch >= 1
        /\ (batch - 1) \notin ThrownBatches) =>
        \A i \in DOMAIN filePaths :
            BatchOfPosition(i) = batch - 1 =>
                LET p == filePaths[i]
                    own == serverData[p]
                IN  /\ p \in DOMAIN commitMap
                    /\ own = Null =>
                          commitMap[p] =
                              [lastModified |-> <<"unknown time">>,
                               commitAuthor |-> "unknown author",
                               commitMessage |-> <<"no file data found">>]
                    /\ (own # Null /\ own.latestCommit.nodes = << >>) =>
                          commitMap[p] =
                              [lastModified |-> <<"unknown time">>,
                               commitAuthor |-> "unknown author",
                               commitMessage |-> <<"no commit history">>]
                    /\ (own # Null /\ own.latestCommit.nodes # << >>) =>
                          LET commit == own.latestCommit.nodes[1]
                          IN  /\ commitMap[p].lastModified =
                                    toLocaleString(commit.committedDate)
                              /\ commitMap[p].commitId = commit.oid
                              /\ commit.author # Null =>
                                    commitMap[p].commitAuthor = commit.author.name
                              /\ commit.author = Null =>
                                    commitMap[p].commitAuthor = "unknown author"
                              /\ commit.message # << >> =>
                                    commitMap[p].commitMessage = commit.message
                              /\ commit.message = << >> =>
                                    commitMap[p].commitMessage = <<"no commit message">>

\* a batch of three paths: the field of the second is absent, the first and
\* the third have the data of their own commits
C11_Witness ==
    /\ GqlReturned
    /\ batchSize = 3
    /\ Len(filePaths) = 3
    /\ Cardinality(AskedPaths) = 3
    /\ thrown = {}
    /\ serverData[filePaths[2]] = Null
    /\ commitMap[filePaths[2]].lastModified = UnknownTime
    /\ commitMap[filePaths[2]].commitMessage = NoFileData
    /\ commitMap[filePaths[1]].commitAuthor = "alice"
    /\ commitMap[filePaths[1]].commitMessage = <<"update ", filePaths[1]>>
    /\ commitMap[filePaths[3]].commitAuthor = "alice"
    /\ commitMap[filePaths[3]].commitMessage = <<"update ", filePaths[3]>>

(***************************************************************************)
(* C12: nothing is sent twice.  With batchSize >= 1 the number of queries  *)
(* sent is the number of batches begun, a batch whose call threw included, *)
(* and is ceil(L / batchSize) when the function returns; the requests of   *)
(* one path of batchGetFileCommits are pairwise different pages, and after *)
(* a request of a path failed no further request of that path is sent.     *)
(***************************************************************************)
C12_NoRetry ==
    /\ (batchSize >= 1 /\ gqlPc # "idle") =>
          /\ Len(issued) = batch + (IF gqlPc = "await" THEN 1 ELSE 0)
          /\ Len(issued) <= BatchCount
          /\ \A b \in ThrownBatches : b < Len(issued)
          /\ Cardinality(thrown) = Cardinality(ThrownBatches)
          /\ GqlReturned => Len(issued) = BatchCount
    /\ \A i \in DOMAIN tasks :
          /\ \A k, l \in DOMAIN requests[i] :
                requests[i][k] = requests[i][l] => k = l
          /\ \A k \in DOMAIN received[i] :
                IsFailure(received[i][k]) =>
                    /\ Len(requests[i]) = k
                    /\ TaskSettled(i)

\* three paths in two batches: the call of the first batch threw, and two
\* queries were sent in all
C12_Witness ==
    /\ GqlReturned
    /\ batchSize = 2
    /\ Len(filePaths) = 3
    /\ ThrownBatches = {0}
    /\ Len(issued) = 2
    /\ BatchCount = 2

(***************************************************************************)
(* Vocabulary of C13: what the server has answered, by URL.                *)
(***************************************************************************)
\* the answered requests of all the callbacks, each with its outcome
Served ==
    UNION {{[url |-> requests[i][k], outcome |-> received[i][k]] :
               k \in DOMAIN received[i]} : i \in DOMAIN tasks}

\* the server gave one and the same answer for a URL each time it was asked
FixedResponses ==
    \A s, t \in Served : s.url = t.url => s.outcome = t.outcome

IsServed(url) == \E s \in Served : s.url = url
ServedAt(url) == (CHOOSE s \in Served : s.url = url).outcome

\* the entry of a path as the answers by URL determine it, walking the pages
\* of the path from the given one with the records collected before it
RECURSIVE EntryFromServed(_, _, _)
EntryFromServed(path, page, commits) ==
    IF ~IsServed(Url(path, page))
    THEN [path |-> path, commits |-> commits, total |-> Len(commits),
          error |-> Null]
    ELSE LET outcome == ServedAt(Url(path, page))
         IN  IF IsFailure(outcome)
             THEN [path |-> path, commits |-> << >>, total |-> 0,
                   error |-> Str(MessageByCause(outcome, path))]
             ELSE IF IsLastPage(outcome)
             THEN [path |-> path, commits |-> commits \o outcome.body,
                   total |-> Len(commits \o outcome.body), error |-> Null]
             ELSE EntryFromServed(path, page + 1, commits \o outcome.body)

(***************************************************************************)
(* C13: when the server answers each (path, page) in one fixed way, the    *)
(* entry of a path is determined by the answers to the pages of that path  *)
(* alone, and the array batchGetFileCommits resolves to is determined by   *)
(* the list of paths and those answers: the order in which the responses   *)
(* of different paths arrive and the callbacks settle has no part in it.   *)
(***************************************************************************)
C13_InterleavingIndependent ==
    FixedResponses =>
        /\ \A i \in DOMAIN tasks :
              TaskSettled(i) =>
                  /\ tasks[i].promise.state = "fulfilled"
                  /\ EntryOf(i) = EntryFromServed(paths[i], 1, << >>)
        /\ RestFulfilled =>
              restPromise.value =
                  [i \in DOMAIN paths |-> EntryFromServed(paths[i], 1, << >>)]

\* two different paths with records: the first has two pages, and the second
\* settled between the two responses of the first, or before them
C13_Witness ==
    /\ RestFulfilled
    /\ FixedResponses
    /\ Len(paths) = 2
    /\ paths[1] # paths[2]
    /\ settledOrder = <<2, 1>>
    /\ Len(received[1]) = 2
    /\ restPromise.value[1].total = 3
    /\ restPromise.value[2].total = 1

(***************************************************************************)
(* C14: the alias of (batch, position) is injective.  Over all batch and   *)
(* position numbers up to MaxAlias two aliases are equal only for the same *)
(* batch and the same position; in every query sent no two selections      *)
(* share an alias, the alias under which the result of a position is read  *)
(* is the alias of that position in the query, and so what is read for a   *)
(* position is the data of the path at that position.                      *)
(***************************************************************************)
AliasInjective ==
    \A b1, b2, i1, i2 \in 0 .. MaxAlias :
        fieldName(b1, i1) = fieldName(b2, i2) => (b1 = b2 /\ i1 = i2)

C14_AliasInjective ==
    /\ AliasInjective
    /\ \A request \in inflight :
          LET query == request.query
          IN  /\ \A i, j \in DOMAIN query :
                    query[i].fieldName = query[j].fieldName => i = j
              /\ \A i \in DOMAIN query :
                    /\ readFieldName(request.batch, i - 1) = query[i].fieldName
                    /\ FieldOf(Execute(query), readFieldName(request.batch, i - 1))
                          = serverData[query[i].path]

\* the query of a first batch of two different paths whose data differ is in
\* flight
C14_Witness ==
    \E request \in inflight :
        /\ request.batch = 0
        /\ Len(request.query) = 2
        /\ request.query[1].path # request.query[2].path
        /\ serverData[request.query[1].path] # serverData[request.query[2].path]
        /\ request.query[1].fieldName = <<"f", "i", "l", "e", "_", "0", "_", "0">>
        /\ request.query[2].fieldName = <<"f", "i", "l", "e", "_", "0", "_", "1">>

(***************************************************************************)
(* C15: whatever integer is passed as perPage, per_page of every request   *)
(* sent is between 1 and 500: perPage itself when it is in that range, 1   *)
(* when it is less than 1 and 500 when it is more than 500.                *)
(***************************************************************************)
C15_PerPageClamped ==
    \A i \in DOMAIN requests :
        \A k \in DOMAIN requests[i] :
            LET sent == requests[i][k].per_page
            IN  /\ sent >= 1
                /\ sent <= 500
                /\ (perPage >= 1 /\ perPage <= 500) => sent = perPage
                /\ perPage < 1 => sent = 1
                /\ perPage > 500 => sent = 500

\* called with 501: two pages were requested, both with per_page 500
C15_Witness ==
    /\ perPage = 501
    /\ Len(requests) = 1
    /\ Len(requests[1]) = 2
    /\ requests[1][1].per_page = 500
    /\ requests[1][2].per_page = 500

(***************************************************************************)
(* Vocabulary of C16: decoding of the five entities, as an HTML parser     *)
(* does it: one pass from the left, an entity is decoded once and what it  *)
(* decodes to is not read again.                                           *)
(***************************************************************************)
Entities ==
    { [text |-> <<"&", "a", "m", "p", ";">>, char |-> "&"],
      [text |-> <<"&", "l", "t", ";">>, char |-> "<"],
      [text |-> <<"&", "g", "t", ";">>, char |-> ">"],
      [text |-> <<"&", "q", "u", "o", "t", ";">>, char |-> "\""],
      [text |-> <<"&", "#", "0", "3", "9", ";">>, char |-> "'"] }

StartsWith(text, prefix) ==
    /\ Len(text) >= Len(prefix)
    /\ SubSeq(text, 1, Len(prefix)) = prefix

RECURSIVE unescapeHtml(_)
unescapeHtml(text) ==
    IF text = << >> THEN << >>
    ELSE IF \E e \in Entities : StartsWith(text, e.text)
    THEN LET e == CHOOSE e \in Entities : StartsWith(text, e.text)
         IN  <<e.char>> \o unescapeHtml(SubSeq(text, Len(e.text) + 1, Len(text)))
    ELSE <<Head(text)>> \o unescapeHtml(Tail(text))

(***************************************************************************)
(* C16: decoding what escapeHtml returns gives back the text it was called *)
(* with, for every text of the characters & < > " ' and others, texts that *)
(* hold an entity such as "&lt;" included; and what escapeHtml returns has *)
(* none of < > " ' left in it.                                             *)
(***************************************************************************)
C16_EscapeRoundTrip ==
    escaped.state = "returned" =>
        /\ unescapeHtml(escaped.value) = markdown
        /\ \A k \in DOMAIN escaped.value :
              escaped.value[k] \notin {"<", ">", "\"", "'"}

\* the text "&lt;" was escaped to "&amp;lt;"
C16_Witness ==
    /\ markdown = <<"&", "l", "t", ";">>
    /\ escaped.state = "returned"
    /\ escaped.value = <<"&", "a", "m", "p", ";", "l", "t", ";">>
    /\ unescapeHtml(escaped.value) = <<"&", "l", "t", ";">>

(***************************************************************************)
(* C17: after any sequence of calls of switchToList, switchToShow and      *)
(* switchToEdit, the container named by the last call carries              *)
(* container-active alone and the other two carry container-hidden alone.  *)
(***************************************************************************)
C17_OneContainerActive ==
    switches # << >> =>
        \A c \in ContainerNames :
            containers[c] =
                IF c = switches[Len(switches)] THEN {"container-active"}
                ELSE {"container-hidden"}

(***************************************************************************)
(* C18: from the first call of loadBlogContent on, exactly one of the      *)
(* loading indicator, the content pane and the error pane is displayed,    *)
(* whatever the calls and the order in which their fetches settle, and     *)
(* when no fetch is pending the loading indicator is hidden.               *)
(***************************************************************************)
C18_OnePaneDisplayed ==
    loads # << >> =>
        /\ Cardinality({pane \in {"loading", "content", "error"} :
              CASE pane = "loading" -> showLoading = "block"
                [] pane = "content" -> showContent.display = "block"
                [] pane = "error" -> showError.display = "block"}) = 1
        /\ loadFetches = {} => showLoading = "none"

(***************************************************************************)
(* C19: loadBlogContent was called for a post A and then, while the fetch  *)
(* of A was pending, for another post B; once both fetches have settled    *)
(* the title is that of B and the content pane, where it is displayed,     *)
(* holds the rendering of the text of B, whichever response came first.    *)
(***************************************************************************)
C19_ShowsLastRequested ==
    (/\ Len(loads) = 2
     /\ loads[2].pending = {1}
     /\ loads[1].path # loads[2].path
     /\ loadFetches = {}) =>
        /\ showTitle = <<loads[2].title>>
        /\ showContent.display = "block" =>
              showContent.innerHTML = renderMarkdownFunc(FileText(loads[2].path))

(***************************************************************************)
(* C20: for every list of paths and every integer batchSize, zero and      *)
(* negative ones included, fetchFileCommitsViaGraphQL comes to its return: *)
(* every batch it begins takes at least one path, so that it begins at     *)
(* most as many batches as there are paths; and the map it returns has an  *)
(* entry for every path of the list.                                       *)
(***************************************************************************)
C20_TerminatesWithEveryPath ==
    /\ gqlPc = "await" =>
          /\ batch < Len(filePaths)
          /\ currentBatchPaths(batch) # << >>
    /\ GqlReturned => DOMAIN commitMap = AskedPaths

====
